---------------------------- MODULE Spec2Model ----------------------------
(***************************************************************************)
(* Model of the alert filter engine of openstorage (alerts/filter.go):     *)
(* filter.Match, the sortable Filters collection and getKeysFromFilters.   *)
(*                                                                         *)
(* A kvdb key is modelled as the sequence of its slash-separated segments  *)
(* ("alerts/Volume/5" is <<"alerts", "Volume", "5">>, "" is << >>).        *)
(***************************************************************************)
EXTENDS Integers, Sequences, FiniteSets

VARIABLES
    filters,    \* the caller's slice, passed variadically (shared backing array)
    input,      \* the slice contents at the time of the call
    pc,         \* position of the sequential caller
    keys,       \* map returned by getKeysFromFilters, as the set of its keys
    nilKeys,    \* whether the returned map is nil
    err,        \* error returned by getKeysFromFilters
    alert,      \* the *api.Alert handed to Match
    matched,    \* bool returned by Match
    merr,       \* error returned by Match
    calls,      \* number of invocations of the custom predicate
    cpc, ci, cj, ctmp, ckeys, cret   \* per-goroutine state of concurrent calls

vars == <<filters, input, pc, keys, nilKeys, err, alert, matched, merr, calls,
          cpc, ci, cj, ctmp, ckeys, cret>>

---------------------------------------------------------------------------
(* Bounds *)

MaxFilters == 3
MaxSeconds == 1
NumCalls == 2

---------------------------------------------------------------------------
(* FilterType constants, in declaration (iota) order *)

CustomFilter == 0
TimeFilter == 1
AlertTypeFilter == 2
ResourceIDFilter == 3
CountFilter == 4
QueryResourceTypeFilter == 5
QueryAlertTypeFilter == 6
QueryResourceIDFilter == 7
\* a FilterType value outside the declared constants
UnregisteredFilter == 8

NoError == "nil"
typeAssertionError == "typeAssertionError"
invalidFilterType == "invalidFilterType"

\* namespace root under which all alerts are stored
KvdbKey == <<"alerts">>

---------------------------------------------------------------------------
(* Values *)

ResourceTypes == {1, 2}

\* api.ResourceType.String(): the enumeration constant's name
ResourceTypeString(rt) ==
    CASE rt = 1 -> "Volume"
      [] rt = 2 -> "Node"
      [] OTHER  -> "None"

AlertTypes == {5, 26}
ResourceIDs == {"", "v1"}
\* a time.Time is counted in milliseconds since the epoch
Second == 1000
Times == {s * Second + ms : s \in 0..MaxSeconds, ms \in {0, 500}}

\* time.Time.Unix(): whole seconds since the epoch
Unix(t) == t \div Second

HexDigit(d) == SubSeq("0123456789abcdef", d + 1, d + 1)

RECURSIVE HexNat(_)
HexNat(n) == IF n < 16 THEN HexDigit(n) ELSE HexNat(n \div 16) \o HexDigit(n % 16)

\* strconv.FormatInt(v, 16)
FormatInt16(v) == IF v < 0 THEN "-" \o HexNat(-v) ELSE HexNat(v)

\* an interface{} payload: its dynamic type ("shape") and the fields of that type
ZeroValue ==
    [shape |-> "nil", int64 |-> 0, string |-> "", start |-> 0, stop |-> 0,
     alertType |-> 0, resourceType |-> 0, resourceID |-> "",
     ret |-> FALSE, reterr |-> NoError]

FuncValue(r, e) == [ZeroValue EXCEPT !.shape = "func", !.ret = r, !.reterr = e]
timeZone(a, b) == [ZeroValue EXCEPT !.shape = "timeZone", !.start = a, !.stop = b]
Int64Value(n) == [ZeroValue EXCEPT !.shape = "int64", !.int64 = n]
StringValue(s) == [ZeroValue EXCEPT !.shape = "string", !.string = s]
ResourceTypeValue(rt) == [ZeroValue EXCEPT !.shape = "ResourceType", !.resourceType = rt]
alertInfo(at, rt, id) ==
    [ZeroValue EXCEPT !.shape = "alertInfo", !.alertType = at,
                      !.resourceType = rt, !.resourceID = id]

filter(t, v) == [filterType |-> t, value |-> v]

GetFilterType(f) == f.filterType
GetValue(f) == f.value

---------------------------------------------------------------------------
(* filter.Match *)

\* the dynamic type each case of the switch asserts on the payload
AssertedShape(t) ==
    CASE t = CustomFilter -> "func"
      [] t = TimeFilter -> "timeZone"
      [] t = AlertTypeFilter -> "int64"
      [] t = ResourceIDFilter -> "string"
      [] t = CountFilter -> "int64"
      [] t = QueryResourceTypeFilter -> "ResourceType"
      [] t = QueryAlertTypeFilter -> "alertInfo"
      [] t = QueryResourceIDFilter -> "alertInfo"
      [] OTHER -> "none"

MatchResult(m, e, n) == [matched |-> m, err |-> e, calls |-> n]

\* faulty variant of Compare: the stop bound of the time window is exclusive
CompareExclusiveStop(t, v, a) ==
    CASE t = TimeFilter ->
            a.Seconds >= Unix(v.start) /\ a.Seconds < Unix(v.stop)
      [] t = AlertTypeFilter -> a.AlertType = v.int64
      [] t = ResourceIDFilter -> a.ResourceId = v.string
      [] t = CountFilter -> a.Count = v.int64
      [] t = QueryResourceTypeFilter -> a.Resource = v.resourceType
      [] t = QueryAlertTypeFilter ->
            a.AlertType = v.alertType /\ a.Resource = v.resourceType
      [] t = QueryResourceIDFilter ->
            /\ a.AlertType = v.alertType
            /\ a.Resource = v.resourceType
            /\ a.ResourceId = v.resourceID
      [] OTHER -> FALSE

\* the comparison made in the filter's case once the assertion succeeded
Compare(t, v, a) ==
    CASE t = TimeFilter ->
            a.Seconds >= Unix(v.start) /\ a.Seconds <= Unix(v.stop)
      [] t = AlertTypeFilter -> a.AlertType = v.int64
      [] t = ResourceIDFilter -> a.ResourceId = v.string
      [] t = CountFilter -> a.Count = v.int64
      [] t = QueryResourceTypeFilter -> a.Resource = v.resourceType
      [] t = QueryAlertTypeFilter ->
            a.AlertType = v.alertType /\ a.Resource = v.resourceType
      [] t = QueryResourceIDFilter ->
            /\ a.AlertType = v.alertType
            /\ a.Resource = v.resourceType
            /\ a.ResourceId = v.resourceID
      [] OTHER -> FALSE

\* faulty variant of Match: the ok of the type assertion is dropped and the
\* zero value of the asserted type is compared
MatchUncheckedAssertion(f, a) ==
    LET t == GetFilterType(f)
        v == GetValue(f)
    IN  IF t \notin CustomFilter..QueryResourceIDFilter
        THEN MatchResult(FALSE, invalidFilterType, 0)
        ELSE IF t = CustomFilter
        THEN (IF v.shape = "func" THEN MatchResult(v.ret, v.reterr, 1)
              ELSE MatchResult(FALSE, typeAssertionError, 0))
        ELSE IF v.shape # AssertedShape(t)
        THEN MatchResult(Compare(t, ZeroValue, a), NoError, 0)
        ELSE MatchResult(Compare(t, v, a), NoError, 0)

Match(f, a) ==
    LET t == GetFilterType(f)
        v == GetValue(f)
    IN  IF t \notin CustomFilter..QueryResourceIDFilter
        THEN MatchResult(FALSE, invalidFilterType, 0)
        ELSE IF v.shape # AssertedShape(t)
        THEN MatchResult(FALSE, typeAssertionError, 0)
        ELSE IF t = CustomFilter
        THEN MatchResult(v.ret, v.reterr, 1)
        ELSE MatchResult(Compare(t, v, a), NoError, 0)

---------------------------------------------------------------------------
(* Filters: sort.Interface *)

Less(fs, i, j) == GetFilterType(fs[i]) < GetFilterType(fs[j])

Swap(fs, i, j) == [fs EXCEPT ![i] = fs[j], ![j] = fs[i]]

\* sort.Sort on fewer than 12 elements: insertion sort (indices are 1-based here)
RECURSIVE insertionInner(_, _)
insertionInner(fs, j) ==
    IF j > 1 /\ Less(fs, j, j - 1)
    THEN insertionInner(Swap(fs, j, j - 1), j - 1)
    ELSE fs

RECURSIVE insertionOuter(_, _)
insertionOuter(fs, i) ==
    IF i > Len(fs) THEN fs ELSE insertionOuter(insertionInner(fs, i), i + 1)

SortFilters(fs) == insertionOuter(fs, 2)

---------------------------------------------------------------------------
(* getKeysFromFilters *)

\* filepath.Join: empty elements are dropped, the rest joined by "/"
RECURSIVE JoinPath(_, _)
JoinPath(key, elems) ==
    IF elems = << >> THEN key
    ELSE JoinPath(IF Head(elems) = "" THEN key ELSE Append(key, Head(elems)),
                  Tail(elems))

\* keyPath, _ := filepath.Split(key); keyPath = strings.Trim(keyPath, "/")
SplitTrim(key) == IF key = << >> THEN << >> ELSE SubSeq(key, 1, Len(key) - 1)

IsQueryFilter(f) ==
    GetFilterType(f) \in
        {QueryResourceTypeFilter, QueryAlertTypeFilter, QueryResourceIDFilter}

\* faulty variant of AssertionOk: the payload of every kind is asserted
AssertionOkEveryKind(f) == GetValue(f).shape = AssertedShape(GetFilterType(f))

\* the type assertion on the payload made in the filter's case of the switch
AssertionOk(f) ==
    CASE GetFilterType(f) = QueryResourceTypeFilter ->
            GetValue(f).shape = "ResourceType"
      [] GetFilterType(f) = QueryAlertTypeFilter ->
            GetValue(f).shape = "alertInfo"
      [] GetFilterType(f) = QueryResourceIDFilter ->
            GetValue(f).shape = "alertInfo"
      [] OTHER -> TRUE

\* the elements the filter's case of the switch joins onto key
KeyElems(f) ==
    LET v == GetValue(f) IN
    CASE GetFilterType(f) = QueryResourceTypeFilter ->
            <<ResourceTypeString(v.resourceType)>>
      [] GetFilterType(f) = QueryAlertTypeFilter ->
            <<ResourceTypeString(v.resourceType), FormatInt16(v.alertType)>>
      [] GetFilterType(f) = QueryResourceIDFilter ->
            <<ResourceTypeString(v.resourceType), FormatInt16(v.alertType),
              v.resourceID>>
      [] OTHER -> << >>

\* key := KvdbKey at the top of every iteration, then the switch
FilterKey(f) == JoinPath(KvdbKey, KeyElems(f))

\* if !keys[keyPath] { keys[key] = true }
RecordKey(ks, key) == IF SplitTrim(key) \in ks THEN ks ELSE ks \cup {key}

\* faulty variant of RangeFilters: a filter outside the three query kinds records no key
RECURSIVE RangeFiltersSkipPost(_, _, _)
RangeFiltersSkipPost(fs, i, ks) ==
    IF i > Len(fs) THEN [keys |-> ks, nil |-> FALSE, err |-> NoError]
    ELSE IF ~AssertionOk(fs[i]) THEN [keys |-> {}, nil |-> TRUE, err |-> typeAssertionError]
    ELSE IF ~IsQueryFilter(fs[i]) THEN RangeFiltersSkipPost(fs, i + 1, ks)
    ELSE RangeFiltersSkipPost(fs, i + 1, RecordKey(ks, FilterKey(fs[i])))

\* faulty variant of RangeFilters: key is declared before the loop and carried from filter to filter
RECURSIVE CarriedKey(_, _)
CarriedKey(fs, i) ==
    IF i = 0 THEN KvdbKey ELSE JoinPath(CarriedKey(fs, i - 1), KeyElems(fs[i]))

RECURSIVE RangeFiltersCarried(_, _, _)
RangeFiltersCarried(fs, i, ks) ==
    IF i > Len(fs) THEN [keys |-> ks, nil |-> FALSE, err |-> NoError]
    ELSE IF ~AssertionOk(fs[i]) THEN [keys |-> {}, nil |-> TRUE, err |-> typeAssertionError]
    ELSE RangeFiltersCarried(fs, i + 1, RecordKey(ks, CarriedKey(fs, i)))

\* the range loop over the sorted filters; returns nil and the error at the
\* first failed type assertion
RECURSIVE RangeFilters(_, _, _)
RangeFilters(fs, i, ks) ==
    IF i > Len(fs) THEN [keys |-> ks, nil |-> FALSE, err |-> NoError]
    ELSE IF ~AssertionOk(fs[i]) THEN [keys |-> {}, nil |-> TRUE, err |-> typeAssertionError]
    ELSE RangeFilters(fs, i + 1, RecordKey(ks, FilterKey(fs[i])))

\* faulty variant of InSubTree: only the immediate parent is looked up, the walk up is missing
InSubTreeParentOnly(keyPath, ks) ==
    Len(keyPath) > 0 /\ SplitTrim(keyPath) \in ks

\* the inner loop of the removal pass: walk up from key until a path in keys
RECURSIVE InSubTree(_, _)
InSubTree(keyPath, ks) ==
    IF Len(keyPath) > 0
    THEN LET up == SplitTrim(keyPath) IN
         IF up \in ks THEN TRUE ELSE InSubTree(up, ks)
    ELSE FALSE

\* faulty variant of KeysToDelete: the direction is reversed, a key is deleted once a key below it is present
KeysToDeleteAncestors(ks) ==
    {key \in ks : \E k2 \in ks :
        Len(key) < Len(k2) /\ SubSeq(k2, 1, Len(key)) = key}

\* var keysToDelete []string, filled by the loop over the map
KeysToDelete(ks) == {key \in ks : InSubTree(key, ks)}

RemoveSubTrees(ks) == ks \ KeysToDelete(ks)

\* faulty variant of DeriveSorted: the else branch that records KvdbKey for no filters is missing
DeriveSortedNoFallback(fs) ==
    LET r == RangeFilters(fs, 1, {}) IN
    IF r.err # NoError THEN r
    ELSE [keys |-> RemoveSubTrees(r.keys), nil |-> FALSE, err |-> NoError]

\* the body of getKeysFromFilters after sort.Sort
DeriveSorted(fs) ==
    IF Len(fs) > 0
    THEN LET r == RangeFilters(fs, 1, {}) IN
         IF r.err # NoError THEN r
         ELSE [keys |-> RemoveSubTrees(r.keys), nil |-> FALSE, err |-> NoError]
    ELSE [keys |-> RemoveSubTrees({KvdbKey}), nil |-> FALSE, err |-> NoError]

getKeysFromFilters(fs) == DeriveSorted(SortFilters(fs))

---------------------------------------------------------------------------
(* Inputs of the key derivation *)

\* well-formed query filters; the resource-id filters are all on resource type 1
QueryFilters ==
    {filter(QueryResourceTypeFilter, ResourceTypeValue(rt)) : rt \in ResourceTypes}
    \cup {filter(QueryAlertTypeFilter, alertInfo(at, rt, "")) :
            at \in AlertTypes, rt \in ResourceTypes}
    \cup {filter(QueryResourceIDFilter, alertInfo(at, 1, id)) :
            at \in AlertTypes, id \in ResourceIDs}

MalformedQueryFilters ==
    {filter(QueryResourceTypeFilter, StringValue("Volume")),
     filter(QueryAlertTypeFilter, Int64Value(5)),
     filter(QueryResourceIDFilter, StringValue("v1"))}

PostFilters ==
    {filter(CustomFilter, FuncValue(TRUE, NoError)),
     filter(TimeFilter, timeZone(0, Second)),
     filter(CountFilter, StringValue("5")),
     filter(UnregisteredFilter, Int64Value(5))}

DeriveFilters == QueryFilters \cup MalformedQueryFilters \cup PostFilters

SeqsUpTo(S, n) == UNION {[1..k -> S] : k \in 0..n}

---------------------------------------------------------------------------
(* Sequential caller of getKeysFromFilters *)

NoAlert == [AlertType |-> 0, Resource |-> 0, ResourceId |-> "", Count |-> 0,
            Seconds |-> 0, Nanos |-> 0]

IdleDerive == keys = {} /\ nilKeys = TRUE /\ err = NoError

IdleMatch ==
    /\ alert = NoAlert /\ matched = FALSE /\ merr = NoError /\ calls = 0

IdleConc ==
    /\ cpc = << >> /\ ci = << >> /\ cj = << >> /\ ctmp = << >>
    /\ ckeys = << >> /\ cret = << >>

Init ==
    /\ input \in SeqsUpTo(DeriveFilters, MaxFilters)
    /\ filters = input
    /\ pc = "call"
    /\ IdleDerive
    /\ IdleMatch
    /\ IdleConc

\* keys, err := getKeysFromFilters(filters...)
CallGetKeys ==
    /\ pc = "call"
    /\ filters' = SortFilters(filters)
    /\ LET r == getKeysFromFilters(filters) IN
        keys' = r.keys /\ nilKeys' = r.nil /\ err' = r.err
    /\ pc' = "done"
    /\ UNCHANGED <<input, alert, matched, merr, calls,
                   cpc, ci, cj, ctmp, ckeys, cret>>

Next == CallGetKeys

Spec == Init /\ [][Next]_vars

---------------------------------------------------------------------------
(* Caller of Match *)

Payloads ==
    {FuncValue(r, e) : r \in BOOLEAN, e \in {NoError, "predicateError"}}
    \cup {timeZone(a, b) : a \in Times, b \in Times}
    \cup {Int64Value(n) : n \in AlertTypes \cup {1}}
    \cup {StringValue(s) : s \in ResourceIDs}
    \cup {ResourceTypeValue(rt) : rt \in ResourceTypes}
    \cup {alertInfo(at, rt, id) :
            at \in AlertTypes, rt \in ResourceTypes, id \in ResourceIDs}
    \cup {ZeroValue}

MatchFilters ==
    {filter(t, v) : t \in CustomFilter..UnregisteredFilter, v \in Payloads}

Alerts ==
    [AlertType : AlertTypes, Resource : ResourceTypes, ResourceId : ResourceIDs,
     Count : {1, 5}, Seconds : 0..MaxSeconds, Nanos : {0, 500000000}]

MatchInit ==
    /\ input \in [1..1 -> MatchFilters]
    /\ filters = input
    /\ alert \in Alerts
    /\ pc = "call"
    /\ matched = FALSE /\ merr = NoError /\ calls = 0
    /\ IdleDerive
    /\ IdleConc

\* matched, err := filters[0].Match(alert)
CallMatch ==
    /\ pc = "call"
    /\ LET r == Match(filters[1], alert) IN
        matched' = r.matched /\ merr' = r.err /\ calls' = r.calls
    /\ pc' = "done"
    /\ UNCHANGED <<filters, input, alert, keys, nilKeys, err,
                   cpc, ci, cj, ctmp, ckeys, cret>>

MatchNext == CallMatch

MatchSpec == MatchInit /\ [][MatchNext]_vars

---------------------------------------------------------------------------
(* Concurrent calls of getKeysFromFilters on one slice.  Each goroutine    *)
(* runs the function step by step; a step is one access to the shared      *)
(* backing array (the two reads of Less, the two reads of Swap, each write  *)
(* of Swap, the read of one element by the range loop).                     *)

Procs == 1..NumCalls

ConcFilters ==
    {filter(CustomFilter, FuncValue(TRUE, NoError)),
     filter(QueryResourceTypeFilter, ResourceTypeValue(1)),
     filter(QueryAlertTypeFilter, alertInfo(5, 1, "")),
     filter(QueryResourceIDFilter, alertInfo(5, 1, "v1")),
     filter(QueryResourceIDFilter, StringValue("v1"))}

ConcInit ==
    /\ input \in SeqsUpTo(ConcFilters, MaxFilters)
    /\ filters = input
    /\ pc = "go"
    /\ IdleDerive
    /\ IdleMatch
    /\ cpc = [p \in Procs |-> "start"]
    /\ ci = [p \in Procs |-> 0]
    /\ cj = [p \in Procs |-> 0]
    /\ ctmp = [p \in Procs |-> << >>]
    /\ ckeys = [p \in Procs |-> {}]
    /\ cret = [p \in Procs |-> [keys |-> {}, nil |-> TRUE, err |-> NoError]]

Shared == <<input, pc, keys, nilKeys, err, alert, matched, merr, calls>>

\* keys := make(map[string]bool); if len(filters) > 0 { sort.Sort(...)
Start(p) ==
    /\ cpc[p] = "start"
    /\ IF Len(filters) > 0
       THEN /\ cpc' = [cpc EXCEPT ![p] = "less"]
            /\ ci' = [ci EXCEPT ![p] = 2]
            /\ cj' = [cj EXCEPT ![p] = 2]
            /\ ckeys' = ckeys
       ELSE /\ cpc' = [cpc EXCEPT ![p] = "remove"]
            /\ ckeys' = [ckeys EXCEPT ![p] = {KvdbKey}]
            /\ UNCHANGED <<ci, cj>>
    /\ UNCHANGED <<filters, ctmp, cret, Shared>>

\* the loop conditions of the insertion sort: i < b, and j > a && Less(j, j-1)
LessStep(p) ==
    /\ cpc[p] = "less"
    /\ IF ci[p] > Len(filters)
       THEN \* the sort is over; the range loop starts
            /\ cpc' = [cpc EXCEPT ![p] = "range"]
            /\ ci' = [ci EXCEPT ![p] = 1]
            /\ cj' = cj
       ELSE IF cj[p] > 1 /\ Less(filters, cj[p], cj[p] - 1)
       THEN /\ cpc' = [cpc EXCEPT ![p] = "swapRead"]
            /\ UNCHANGED <<ci, cj>>
       ELSE /\ ci' = [ci EXCEPT ![p] = ci[p] + 1]
            /\ cj' = [cj EXCEPT ![p] = ci[p] + 1]
            /\ cpc' = cpc
    /\ UNCHANGED <<filters, ctmp, ckeys, cret, Shared>>

\* Swap(j, j-1): the right-hand side (fs)[j-1], (fs)[j] is read
SwapRead(p) ==
    /\ cpc[p] = "swapRead"
    /\ ctmp' = [ctmp EXCEPT ![p] = <<filters[cj[p] - 1], filters[cj[p]]>>]
    /\ cpc' = [cpc EXCEPT ![p] = "swapWrite1"]
    /\ UNCHANGED <<filters, ci, cj, ckeys, cret, Shared>>

\* Swap(j, j-1): (fs)[j] is assigned
SwapWrite1(p) ==
    /\ cpc[p] = "swapWrite1"
    /\ filters' = [filters EXCEPT ![cj[p]] = ctmp[p][1]]
    /\ cpc' = [cpc EXCEPT ![p] = "swapWrite2"]
    /\ UNCHANGED <<ci, cj, ctmp, ckeys, cret, Shared>>

\* Swap(j, j-1): (fs)[j-1] is assigned; then j--
SwapWrite2(p) ==
    /\ cpc[p] = "swapWrite2"
    /\ filters' = [filters EXCEPT ![cj[p] - 1] = ctmp[p][2]]
    /\ cj' = [cj EXCEPT ![p] = cj[p] - 1]
    /\ cpc' = [cpc EXCEPT ![p] = "less"]
    /\ UNCHANGED <<ci, ctmp, ckeys, cret, Shared>>

\* one iteration of for _, filter := range filters
RangeStep(p) ==
    /\ cpc[p] = "range"
    /\ LET f == filters[ci[p]] IN
       IF ~AssertionOk(f)
       THEN /\ cret' = [cret EXCEPT ![p] =
                          [keys |-> {}, nil |-> TRUE, err |-> typeAssertionError]]
            /\ cpc' = [cpc EXCEPT ![p] = "done"]
            /\ UNCHANGED <<ci, ckeys>>
       ELSE /\ ckeys' = [ckeys EXCEPT ![p] = RecordKey(ckeys[p], FilterKey(f))]
            /\ ci' = [ci EXCEPT ![p] = ci[p] + 1]
            /\ cpc' = [cpc EXCEPT ![p] =
                         IF ci[p] + 1 > Len(filters) THEN "remove" ELSE "range"]
            /\ cret' = cret
    /\ UNCHANGED <<filters, cj, ctmp, Shared>>

\* the removal pass over the goroutine's own map, and return keys, nil
RemoveStep(p) ==
    /\ cpc[p] = "remove"
    /\ cret' = [cret EXCEPT ![p] =
                  [keys |-> RemoveSubTrees(ckeys[p]), nil |-> FALSE, err |-> NoError]]
    /\ cpc' = [cpc EXCEPT ![p] = "done"]
    /\ UNCHANGED <<filters, ci, cj, ctmp, ckeys, Shared>>

ConcNext ==
    \E p \in Procs :
        \/ Start(p)
        \/ LessStep(p)
        \/ SwapRead(p)
        \/ SwapWrite1(p)
        \/ SwapWrite2(p)
        \/ RangeStep(p)
        \/ RemoveStep(p)

ConcSpec == ConcInit /\ [][ConcNext]_vars

---------------------------------------------------------------------------
(* Properties of key derivation (specification Spec) *)

Indices == 1..Len(input)

IsStrictAncestor(a, b) == Len(a) < Len(b) /\ SubSeq(b, 1, Len(a)) = a

IsPathPrefix(a, b) == Len(a) <= Len(b) /\ SubSeq(b, 1, Len(a)) = a

\* the payload shape the payload table requires of each kind
Conforms(f) ==
    LET t == GetFilterType(f)
        sh == GetValue(f).shape
    IN  \/ t = CustomFilter /\ sh = "func"
        \/ t = TimeFilter /\ sh = "timeZone"
        \/ t \in {AlertTypeFilter, CountFilter} /\ sh = "int64"
        \/ t = ResourceIDFilter /\ sh = "string"
        \/ t = QueryResourceTypeFilter /\ sh = "ResourceType"
        \/ t \in {QueryAlertTypeFilter, QueryResourceIDFilter} /\ sh = "alertInfo"

Derived == pc = "done" /\ err = NoError

\* C1: whenever derivation succeeds, no returned key is a strict ancestor
\* path of another returned key.
NoOverlap ==
    Derived => \A k1 \in keys : \A k2 \in keys : ~IsStrictAncestor(k1, k2)

\* C1 witness: a successful derivation whose filters name nested subtrees
\* and which returns more than one key.
NoOverlapWitness ==
    /\ Derived
    /\ Cardinality(keys) >= 2
    /\ \E i \in Indices : \E j \in Indices :
          /\ IsQueryFilter(input[i]) /\ IsQueryFilter(input[j])
          /\ IsStrictAncestor(FilterKey(input[i]), FilterKey(input[j]))


\* kvdb tree struct: alerts/<resourceType>/<resourceID>/<alertType>/data
AlertKeyPath(a) ==
    JoinPath(KvdbKey, <<ResourceTypeString(a.Resource), a.ResourceId,
                        FormatInt16(a.AlertType), "data">>)

SatisfiesQueryFilters(a) ==
    \A i \in Indices :
        IsQueryFilter(input[i]) =>
            Match(input[i], a).matched /\ Match(input[i], a).err = NoError

\* C2: whenever derivation succeeds, every alert that satisfies all the
\* query-capable filters has a returned key that is a path prefix of its
\* full key path <root>/<resourceType>/<resourceId>/<alertType>/data.
Completeness ==
    Derived =>
        \A a \in Alerts :
            SatisfiesQueryFilters(a) =>
                \E k \in keys : IsPathPrefix(k, AlertKeyPath(a))

WellFormedQuery(f) == IsQueryFilter(f) /\ Conforms(f)

NonEmpty(s) == s # ""

\* the candidate key of one query-capable filter, from its payload only
CandidateKey(f) ==
    LET v == GetValue(f)
        rt == ResourceTypeString(v.resourceType)
        at == FormatInt16(v.alertType)
    IN  KvdbKey \o
        SelectSeq(CASE GetFilterType(f) = QueryResourceTypeFilter -> <<rt>>
                    [] GetFilterType(f) = QueryAlertTypeFilter -> <<rt, at>>
                    [] OTHER -> <<rt, at, v.resourceID>>,
                  NonEmpty)

Candidates == {CandidateKey(input[i]) : i \in Indices}

MostGeneral(C) == {k \in C : ~\E a \in C : IsStrictAncestor(a, k)}

Scenario3 ==
    <<filter(QueryResourceTypeFilter, ResourceTypeValue(1)),
      filter(QueryAlertTypeFilter, alertInfo(5, 1, ""))>>

MinimizationHolds ==
    /\ err = NoError
    /\ keys = MostGeneral(Candidates)
    /\ input = Scenario3 => keys = {<<"alerts", "Volume">>}

\* C3 as stated: for every sequence of well-formed query-capable filters,
\* the empty one included, the returned keys are exactly the candidate keys
\* that have no strict ancestor among the candidates.
MinimizationAnySequence ==
    (pc = "done" /\ \A i \in Indices : WellFormedQuery(input[i]))
        => MinimizationHolds

\* C3 amended: for every non-empty sequence of well-formed query-capable
\* filters the returned keys are exactly the candidate keys that have no
\* strict ancestor among the candidates, and scenario 3 returns {alerts/Volume}.
MinimizationNonEmpty ==
    (pc = "done" /\ Len(input) > 0 /\ \A i \in Indices : WellFormedQuery(input[i]))
        => MinimizationHolds

\* C3 witness: three well-formed query filters given deepest first, one
\* naming the subtree of the others, have been derived to a single key.
MinimizationWitness ==
    /\ pc = "done"
    /\ Len(input) = 3
    /\ \A i \in Indices : WellFormedQuery(input[i])
    /\ GetFilterType(input[1]) = QueryResourceIDFilter
    /\ GetFilterType(input[2]) = QueryAlertTypeFilter
    /\ GetFilterType(input[3]) = QueryResourceTypeFilter
    /\ Cardinality(Candidates) = 3
    /\ keys = {CandidateKey(input[3])}

QueryOnly(fs) == SelectSeq(fs, IsQueryFilter)

HasQuery == \E i \in Indices : IsQueryFilter(input[i])

HasPost == \E i \in Indices : ~IsQueryFilter(input[i])

FullScanFallback ==
    (pc = "done" /\ ~HasQuery) => err = NoError /\ keys = {KvdbKey}

\* C5 witness: post filters only, one of them with a payload that does not
\* conform to its kind, have been derived.
FullScanWitness ==
    /\ pc = "done"
    /\ Len(input) >= 2
    /\ ~HasQuery
    /\ \E i \in Indices : ~Conforms(input[i])
    /\ keys = {KvdbKey}

Reorderings(fs) ==
    {[i \in 1..Len(fs) |-> fs[p[i]]] :
        p \in {q \in [1..Len(fs) -> 1..Len(fs)] :
                 \A i \in 1..Len(fs) : \A j \in 1..Len(fs) :
                    q[i] = q[j] => i = j}}

\* C6: every permutation of the filter sequence derives to the same outcome,
\* the same keys or an error in both cases.
OrderIndependent ==
    pc = "done" =>
        \A P \in Reorderings(input) :
            getKeysFromFilters(P) = [keys |-> keys, nil |-> nilKeys, err |-> err]

\* C6 witness: three filters given out of kind order, two of them of the
\* same kind with different payloads, have been derived to two keys or more.
OrderWitness ==
    /\ Derived
    /\ Len(input) = 3
    /\ GetFilterType(input[1]) > GetFilterType(input[2])
    /\ GetFilterType(input[2]) = GetFilterType(input[3])
    /\ input[2] # input[3]
    /\ Cardinality(keys) >= 2

HasMalformedQuery ==
    \E i \in Indices : IsQueryFilter(input[i]) /\ ~Conforms(input[i])

\* C9: derivation fails, with the type assertion error and a nil map, exactly
\* when some query-capable filter has a non-conforming payload; otherwise it
\* returns a map and no error, whatever the other filters' kinds and payloads.
DeriveErrors ==
    pc = "done" =>
        /\ err \in {NoError, typeAssertionError}
        /\ err = typeAssertionError <=> HasMalformedQuery
        /\ err # NoError <=> nilKeys
        /\ nilKeys => keys = {}

\* C9 witness: a derivation that failed on a malformed query filter given
\* after a well-formed one, and one that succeeded although a post filter
\* and a filter of unregistered kind are malformed for their kind.
DeriveErrorsWitness ==
    /\ pc = "done"
    /\ Len(input) = 3
    /\ ~Conforms(input[1])
    /\ GetFilterType(input[1]) = UnregisteredFilter
    /\ WellFormedQuery(input[2])
    /\ IsQueryFilter(input[3]) /\ ~Conforms(input[3])
    /\ err = typeAssertionError
    /\ nilKeys

---------------------------------------------------------------------------
(* Properties of Match (specification MatchSpec) *)

Registered(f) ==
    GetFilterType(f) \in
        {CustomFilter, TimeFilter, AlertTypeFilter, ResourceIDFilter, CountFilter,
         QueryResourceTypeFilter, QueryAlertTypeFilter, QueryResourceIDFilter}

\* an instant cut down to seconds resolution
WholeSeconds(t) == t - (t % Second)

\* the payload table: what each kind other than Custom requires of the alert
TableMatch(f, a) ==
    LET t == GetFilterType(f)
        v == GetValue(f)
    IN  \/ /\ t = TimeFilter
           /\ WholeSeconds(v.start) <= a.Seconds * Second
           /\ a.Seconds * Second <= WholeSeconds(v.stop)
        \/ t = AlertTypeFilter /\ v.int64 = a.AlertType
        \/ t = ResourceIDFilter /\ v.string = a.ResourceId
        \/ t = CountFilter /\ v.int64 = a.Count
        \/ t = QueryResourceTypeFilter /\ v.resourceType = a.Resource
        \/ /\ t = QueryAlertTypeFilter
           /\ v.alertType = a.AlertType /\ v.resourceType = a.Resource
        \/ /\ t = QueryResourceIDFilter
           /\ v.alertType = a.AlertType /\ v.resourceType = a.Resource
           /\ v.resourceID = a.ResourceId

\* C7: for a filter of a registered kind with a conforming payload, Match
\* returns (true, nil) exactly when the payload table's condition holds and
\* (false, nil) otherwise; for Custom it invokes the predicate once and
\* returns its (matched, error) unchanged.
MatchByTable ==
    (pc = "done" /\ Registered(input[1]) /\ Conforms(input[1])) =>
        IF GetFilterType(input[1]) = CustomFilter
        THEN /\ calls = 1
             /\ matched = GetValue(input[1]).ret
             /\ merr = GetValue(input[1]).reterr
        ELSE /\ calls = 0
             /\ merr = NoError
             /\ matched <=> TableMatch(input[1], alert)

\* C7 witness: a time window whose stop has a fraction of a second has been
\* matched against an alert in the same second as the stop, later in it.
MatchByTableWitness ==
    /\ pc = "done"
    /\ GetFilterType(input[1]) = TimeFilter
    /\ Conforms(input[1])
    /\ GetValue(input[1]).stop % Second # 0
    /\ alert.Seconds = Unix(GetValue(input[1]).stop)
    /\ alert.Seconds > Unix(GetValue(input[1]).start)
    /\ matched /\ merr = NoError

\* C8: Match returns (false, invalidFilterType) for every kind outside the
\* eight registered kinds, (false, typeAssertionError) for every registered
\* kind whose payload does not conform to the kind's shape, and never
\* typeAssertionError for a registered kind with a conforming payload.
MatchErrors ==
    pc = "done" =>
        /\ ~Registered(input[1]) => merr = invalidFilterType /\ ~matched
        /\ (Registered(input[1]) /\ ~Conforms(input[1]))
              => merr = typeAssertionError /\ ~matched
        /\ (Registered(input[1]) /\ Conforms(input[1]))
              => merr # typeAssertionError

\* C8 witness: a Count filter whose payload is not an integer has been
\* matched against an alert and failed with the type assertion error.
MatchErrorsWitness ==
    /\ pc = "done"
    /\ GetFilterType(input[1]) = CountFilter
    /\ GetValue(input[1]).shape = "ResourceType"
    /\ GetValue(input[1]).resourceType = alert.Resource
    /\ merr = typeAssertionError
    /\ ~matched

---------------------------------------------------------------------------
(* Properties of concurrent calls (specification ConcSpec) *)

Occurrences(f, fs) == Cardinality({i \in 1..Len(fs) : fs[i] = f})

SameFilters(fs, gs) ==
    /\ Len(fs) = Len(gs)
    /\ \A i \in 1..Len(fs) : Occurrences(fs[i], fs) = Occurrences(fs[i], gs)

AllReturned == \A p \in Procs : cpc[p] = "done"

\* C10: when concurrent calls on the same slice have all returned, each has
\* returned what a single sequential call on that sequence returns, and the
\* slice still holds the same filters, none lost and none duplicated.
ConcurrentCallsSafe ==
    (pc = "go" /\ AllReturned) =>
        /\ \A p \in Procs : cret[p] = getKeysFromFilters(input)
        /\ SameFilters(filters, input)

=============================================================================
